---- MODULE Spec2Model ----
(***************************************************************************)
(* Tag Sense AI: the orchestration layer of the Tauri front end            *)
(* (Sources/Frontend/tauri-app/src/App.jsx, the App component that starts  *)
(* at line 315).  The React state of the component is the state of the     *)
(* model; every event handler and every continuation of an await is one    *)
(* action.  JavaScript runs a handler to its next await without            *)
(* interleaving, so each action is the synchronous block between awaits.   *)
(*                                                                         *)
(* customPrompt and currentModel are display / pass-through state that no  *)
(* handler branches on; they are left out.                                 *)
(***************************************************************************)
EXTENDS Integers, Sequences, FiniteSets, TLC

(* ----------------------------- bounds ---------------------------------- *)
\* largest value of the millisecond clock Date.now() reads
MaxClock == 1
\* largest number of files get_folder_files returns
MaxFiles == 2
\* largest number of Result Log entries (a run starts only when it fits)
MaxLog == 2
\* largest number of pending setTimeout re-checks
MaxTimers == 2
\* largest number of check_backend_status probes in flight
MaxProbes == 2
\* largest length of a text handed to setTag
MaxText == 2

(* ------------------------ values and inputs ---------------------------- *)
\* JavaScript null / undefined for string-valued state
Null == "null"

\* the files a listing can return, in listing order
AllFiles == <<"/docs/a.txt", "/docs/b.jpg", "/docs/c.md", "/docs/d.png">>
Listing(n) == SubSeq(AllFiles, 1, n)
ListingSizes == {n \in 0..MaxFiles : n <= Len(AllFiles)}

PickableFiles == {"/a/report.txt"}
PickableFolders == {"/docs", "/pics"}

\* messages a collaborator can fail with
MsgOllama == "Ollama is not running"
MsgConnection == "connection refused"
MsgTimeout == "request timeout"
MsgContent == "unsupported file type"

\* String.prototype.includes on the messages above (JS strings are matched
\* case-sensitively; a message contains exactly the tokens listed here)
TokensOf(msg) ==
  CASE msg = MsgOllama -> {"Ollama"}
    [] msg = MsgConnection -> {"connection"}
    [] msg = MsgTimeout -> {"timeout"}
    [] OTHER -> {}
Includes(msg, tok) == tok \in TokensOf(msg)

\* tag texts are sequences of characters
Chars == {" ", "x"}
TagFinance == <<"a">>
Tag2024 == <<"b">>
ReturnedTags == <<TagFinance, Tag2024>>
\* the hole `newTags[i] = v` leaves below i when i is beyond the end
Undefined == <<"undefined">>

\* outcomes of invoke("process_file_for_tags")
OkResult == [kind |-> "result", success |-> TRUE, model |-> "text-v1",
             tags |-> ReturnedTags, error |-> Null]
FailedResult(msg) == [kind |-> "result", success |-> FALSE, model |-> Null,
                      tags |-> <<>>, error |-> msg]
Thrown(msg) == [kind |-> "throw", success |-> FALSE, model |-> Null,
                tags |-> <<>>, error |-> msg]

\* per-item outcomes whose message names no connectivity token
ContentOutcomes == {OkResult, FailedResult(MsgContent), Thrown(MsgContent)}
\* per-item outcomes over every message, and a failed result without message
AllOutcomes ==
  {OkResult, FailedResult(Null)}
  \cup {FailedResult(m) : m \in {MsgOllama, MsgConnection, MsgContent}}
  \cup {Thrown(m) : m \in {MsgOllama, MsgConnection, MsgTimeout, MsgContent}}
OkOutcomes == {OkResult}

\* outcomes of invoke("get_folder_files")
ListOk(n) == [kind |-> "result", success |-> TRUE, files |-> Listing(n), error |-> Null]
ListFailed(msg) == [kind |-> "result", success |-> FALSE, files |-> <<>>, error |-> msg]
ListThrown(msg) == [kind |-> "throw", success |-> FALSE, files |-> <<>>, error |-> msg]
ListOutcomes ==
  {ListOk(n) : n \in ListingSizes} \cup {ListFailed(Null), ListThrown(MsgContent)}

\* outcomes of invoke("check_backend_status")
Probe(b, o, msg) == [kind |-> "result", backend_connected |-> b,
                     ollama_connected |-> o, error_message |-> msg]
ProbeThrown == [kind |-> "throw", backend_connected |-> FALSE,
                ollama_connected |-> FALSE, error_message |-> Null]
ProbeOutcomes ==
  {Probe(b, o, Null) : b \in BOOLEAN, o \in BOOLEAN}
  \cup {Probe(TRUE, FALSE, MsgOllama), ProbeThrown}

\* outcomes of the native dialog open(): a path, a cancel (null) or a throw
DialogThrown == "throw"

(* ------------------------------ state ---------------------------------- *)
VARIABLES
  backendStatus,      \* "checking" | "connected" | "ollama-disconnected" | "disconnected"
  ollamaStatus,       \* BOOLEAN
  statusError,        \* Null or a message
  selectedFile,       \* Null or a path
  selectedFolder,     \* Null or a path
  processingResults,  \* the Result Log, newest first
  isProcessing,       \* BOOLEAN, the busy flag
  processingStatus,   \* the status line, see Status
  editingTag,         \* NoEdit or [resultId, tagIndex, value]
  now,                \* Date.now()
  runs,               \* processFile / processFolder activations suspended at an await
  probes,             \* checkBackendStatus activations suspended at their await
  timers,             \* pending setTimeout(() => checkBackendStatus(), 1000)
  fileDialog,         \* selectFile is suspended at await open(...)
  folderDialog,       \* selectFolder is suspended at await open({directory})
  dispatched,         \* history: paths sent to process_file_for_tags by the newest run
  runStartLen,        \* history: length of the Result Log when the newest run started
  newestCheck         \* history: "checking" while the check started last is in flight,
                      \* then the status its probe outcome stands for

vars == <<backendStatus, ollamaStatus, statusError, selectedFile, selectedFolder,
          processingResults, isProcessing, processingStatus, editingTag, now,
          runs, probes, timers, fileDialog, folderDialog, dispatched, runStartLen,
          newestCheck>>

healthVars == <<backendStatus, ollamaStatus, statusError, probes, newestCheck>>
selectionVars == <<selectedFile, selectedFolder, fileDialog, folderDialog>>
batchVars == <<isProcessing, processingStatus, runs, dispatched, runStartLen>>

\* editingTag === null
NoEdit == [resultId |-> -1, tagIndex |-> -1, value |-> <<>>]

\* the text of processingStatus: which template, and the numbers put in it
Status(kind, i, s, e, n) == [kind |-> kind, index |-> i, ok |-> s, failed |-> e, total |-> n]
StatusText(kind) == Status(kind, 0, 0, 0, 0)

Init ==
  /\ backendStatus = "checking"
  /\ ollamaStatus = TRUE
  /\ statusError = Null
  /\ selectedFile = Null
  /\ selectedFolder = Null
  /\ processingResults = <<>>
  /\ isProcessing = FALSE
  /\ processingStatus = StatusText("")
  /\ editingTag = NoEdit
  /\ now = 0
  /\ runs = <<>>
  \* the mount effect has called checkBackendStatus once
  /\ probes = <<[src |-> "startup"]>>
  /\ timers = 0
  /\ fileDialog = FALSE
  /\ folderDialog = FALSE
  /\ dispatched = <<>>
  /\ runStartLen = 0
  /\ newestCheck = "checking"

\* the sequence s without its k-th element
Without(s, k) == SubSeq(s, 1, k - 1) \o SubSeq(s, k + 1, Len(s))

(* --------------------------- focus and clicks -------------------------- *)
\* renderFileResult: entry p shows a tag element for index i
TagRendered(p, i) ==
  /\ p \in 1..Len(processingResults)
  /\ processingResults[p].success
  /\ i \in 0..(Len(processingResults[p].tags) - 1)

\* renderFileResult: isEditing
IsEditing(p, i) ==
  /\ editingTag # NoEdit
  /\ editingTag.resultId = processingResults[p].id
  /\ editingTag.tagIndex = i

\* renderFileResult: some tag is rendered as the <input> element
TagInputShown ==
  \E p \in 1..Len(processingResults) :
    \E i \in 0..(Len(processingResults[p].tags) - 1) :
      TagRendered(p, i) /\ IsEditing(p, i)

\* ClickOutside for a tag input without the onBlur handler
ClickOutsideWithoutBlur == TRUE

\* a click on any element but the tag input.  The input is mounted with
\* autoFocus, so it holds the focus for as long as it is shown; moving the
\* focus away runs its onBlur handler (saveEditedTag, which unmounts it)
\* before the click is delivered.  A click handler therefore runs only when
\* no tag input is shown.
ClickOutside == ~TagInputShown

(* ------------------------------ clock ---------------------------------- *)
Tick ==
  /\ now < MaxClock
  /\ now' = now + 1
  /\ UNCHANGED <<healthVars, selectionVars, batchVars, processingResults,
                 editingTag, timers>>

(* -------------------------- Health Monitor ----------------------------- *)
\* `a || b` on an optional message
OrElse(msg, default) == IF msg = Null THEN default ELSE msg

\* HealthAfter with a first branch that tests ollama_connected only
HealthAfterOllamaOnly(status, prevError) ==
  IF status.kind = "throw"
    THEN [backendStatus |-> "disconnected", ollamaStatus |-> FALSE,
          statusError |-> "Failed to connect to backend"]
  ELSE IF status.ollama_connected
    THEN [backendStatus |-> "connected", ollamaStatus |-> TRUE,
          statusError |-> prevError]
  ELSE IF status.backend_connected /\ ~status.ollama_connected
    THEN [backendStatus |-> "ollama-disconnected", ollamaStatus |-> FALSE,
          statusError |-> OrElse(status.error_message, "Ollama is not running")]
  ELSE [backendStatus |-> "disconnected", ollamaStatus |-> FALSE,
        statusError |-> OrElse(status.error_message, "Backend connection failed")]

\* checkBackendStatus, the if / else-if / else chain and the catch block:
\* the three fields after the probe resolved with `status` (the connected
\* branch does not write statusError, so it keeps `prevError`)
HealthAfter(status, prevError) ==
  IF status.kind = "throw"
    THEN [backendStatus |-> "disconnected", ollamaStatus |-> FALSE,
          statusError |-> "Failed to connect to backend"]
  ELSE IF status.backend_connected /\ status.ollama_connected
    THEN [backendStatus |-> "connected", ollamaStatus |-> TRUE,
          statusError |-> prevError]
  ELSE IF status.backend_connected /\ ~status.ollama_connected
    THEN [backendStatus |-> "ollama-disconnected", ollamaStatus |-> FALSE,
          statusError |-> OrElse(status.error_message, "Ollama is not running")]
  ELSE [backendStatus |-> "disconnected", ollamaStatus |-> FALSE,
        statusError |-> OrElse(status.error_message, "Backend connection failed")]

\* checkBackendStatus up to its await
BeginCheck(src) ==
  /\ Len(probes) < MaxProbes
  /\ backendStatus' = "checking"
  /\ statusError' = Null
  /\ probes' = Append(probes, [src |-> src])
  /\ newestCheck' = "checking"
  /\ UNCHANGED ollamaStatus

\* the "retry connection" button, rendered inside the status-error block
RetryConnection ==
  /\ ClickOutside
  /\ statusError # Null
  /\ backendStatus = "ollama-disconnected"
  /\ BeginCheck("manual")
  /\ UNCHANGED <<selectionVars, batchVars, processingResults, editingTag, now, timers>>

\* a setTimeout(() => checkBackendStatus(), 1000) callback runs
TimerFire ==
  /\ timers > 0
  /\ timers' = timers - 1
  /\ BeginCheck("timer")
  /\ UNCHANGED <<selectionVars, batchVars, processingResults, editingTag, now>>

\* checkBackendStatus after its await: probe k resolves with `status`
CheckResolve(k, status) ==
  /\ k \in 1..Len(probes)
  /\ probes' = Without(probes, k)
  /\ backendStatus' = HealthAfter(status, statusError).backendStatus
  /\ ollamaStatus' = HealthAfter(status, statusError).ollamaStatus
  /\ statusError' = HealthAfter(status, statusError).statusError
  \* probes are kept in the order they were started
  /\ newestCheck' = IF k = Len(probes) /\ newestCheck = "checking"
                      THEN HealthAfter(status, statusError).backendStatus
                      ELSE newestCheck
  /\ UNCHANGED <<selectionVars, batchVars, processingResults, editingTag, now, timers>>

(* ------------------------- Selection Manager --------------------------- *)
\* the "Select File" button (disabled={isProcessing}); selectFile up to its await
SelectFileClick ==
  /\ ClickOutside
  /\ ~isProcessing
  /\ ~fileDialog
  /\ fileDialog' = TRUE
  /\ UNCHANGED <<healthVars, selectedFile, selectedFolder, folderDialog, batchVars,
                 processingResults, editingTag, now, timers>>

\* the selection after the file dialog returned filePath
AfterSelectFile(filePath) ==
  IF filePath # Null /\ filePath # DialogThrown
    THEN [selectedFile |-> filePath, selectedFolder |-> Null]
    ELSE [selectedFile |-> selectedFile, selectedFolder |-> selectedFolder]

\* selectFile after its await
SelectFileResolve(filePath) ==
  /\ fileDialog
  /\ fileDialog' = FALSE
  /\ selectedFile' = AfterSelectFile(filePath).selectedFile
  /\ selectedFolder' = AfterSelectFile(filePath).selectedFolder
  /\ UNCHANGED <<healthVars, folderDialog, batchVars, processingResults,
                 editingTag, now, timers>>

\* the "Select Folder" button (disabled={isProcessing}); selectFolder up to its await
SelectFolderClick ==
  /\ ClickOutside
  /\ ~isProcessing
  /\ ~folderDialog
  /\ folderDialog' = TRUE
  /\ UNCHANGED <<healthVars, selectedFile, selectedFolder, fileDialog, batchVars,
                 processingResults, editingTag, now, timers>>

\* AfterSelectFolder without setSelectedFile(null)
AfterSelectFolderKeepsFile(folderPath) ==
  IF folderPath # Null /\ folderPath # DialogThrown
    THEN [selectedFile |-> selectedFile, selectedFolder |-> folderPath]
    ELSE [selectedFile |-> selectedFile, selectedFolder |-> selectedFolder]

\* the selection after the folder dialog returned folderPath
AfterSelectFolder(folderPath) ==
  IF folderPath # Null /\ folderPath # DialogThrown
    THEN [selectedFile |-> Null, selectedFolder |-> folderPath]
    ELSE [selectedFile |-> selectedFile, selectedFolder |-> selectedFolder]

\* selectFolder after its await
SelectFolderResolve(folderPath) ==
  /\ folderDialog
  /\ folderDialog' = FALSE
  /\ selectedFile' = AfterSelectFolder(folderPath).selectedFile
  /\ selectedFolder' = AfterSelectFolder(folderPath).selectedFolder
  /\ UNCHANGED <<healthVars, fileDialog, batchVars, processingResults,
                 editingTag, now, timers>>

(* --------------------------- Result Log -------------------------------- *)
\* Date.now() + processedCount (processFile adds nothing: processedCount = 0)
NewId(processedCount) == now + processedCount

\* EntryFor reading the folder selected when the entry is built instead of
\* the one the run was started with
EntryForCurrentFolder(processedCount, path, result, fromFolder) ==
  IF result.kind = "result"
    THEN [id |-> NewId(processedCount), type |-> "file", path |-> path,
          model |-> result.model, tags |-> result.tags,
          success |-> result.success, error |-> result.error,
          timestamp |-> now,
          fromFolder |-> IF fromFolder = Null THEN Null ELSE selectedFolder]
    ELSE [id |-> NewId(processedCount), type |-> "file", path |-> path,
          model |-> "Error", tags |-> <<>>,
          success |-> FALSE, error |-> result.error,
          timestamp |-> now,
          fromFolder |-> IF fromFolder = Null THEN Null ELSE selectedFolder]

\* EntryFor with errorResult built without its error field
EntryForDropsMessage(processedCount, path, result, fromFolder) ==
  IF result.kind = "result"
    THEN [id |-> NewId(processedCount), type |-> "file", path |-> path,
          model |-> result.model, tags |-> result.tags,
          success |-> result.success, error |-> result.error,
          timestamp |-> now, fromFolder |-> fromFolder]
    ELSE [id |-> NewId(processedCount), type |-> "file", path |-> path,
          model |-> "Error", tags |-> <<>>,
          success |-> FALSE, error |-> Null,
          timestamp |-> now, fromFolder |-> fromFolder]

\* the object literals newResult (a resolved dispatch) and errorResult (a
\* thrown one); fromFolder is absent (Null) in processFile
EntryFor(processedCount, path, result, fromFolder) ==
  IF result.kind = "result"
    THEN [id |-> NewId(processedCount), type |-> "file", path |-> path,
          model |-> result.model, tags |-> result.tags,
          success |-> result.success, error |-> result.error,
          timestamp |-> now, fromFolder |-> fromFolder]
    ELSE [id |-> NewId(processedCount), type |-> "file", path |-> path,
          model |-> "Error", tags |-> <<>>,
          success |-> FALSE, error |-> result.error,
          timestamp |-> now, fromFolder |-> fromFolder]

\* Prepend for setProcessingResults(prev => [...prev, entry])
PrependAtEnd(entry, prev) == prev \o <<entry>>

\* setProcessingResults(prev => [entry, ...prev])
Prepend(entry, prev) == <<entry>> \o prev

(* -------------------------- Batch Processor ---------------------------- *)
\* a processFile / processFolder activation suspended at an await: the
\* closure's selectedFile / selectedFolder (target), the listing, the loop
\* counters, and `call`, the argument of the invoke it waits for
FileRun(path) ==
  [kind |-> "file", pc |-> "dispatch", target |-> path, files |-> <<>>,
   processedCount |-> 0, successCount |-> 0, errorCount |-> 0, call |-> path]
FolderRun(path) ==
  [kind |-> "folder", pc |-> "listing", target |-> path, files |-> <<>>,
   processedCount |-> 0, successCount |-> 0, errorCount |-> 0, call |-> path]

\* FileButtonEnabled without the isProcessing test
FileButtonIgnoresBusy == selectedFile # Null /\ ollamaStatus

\* disabled={isProcessing || !selectedFile || !ollamaStatus}
FileButtonEnabled == ~isProcessing /\ selectedFile # Null /\ ollamaStatus
\* disabled={isProcessing || !selectedFolder || !ollamaStatus}
FolderButtonEnabled == ~isProcessing /\ selectedFolder # Null /\ ollamaStatus

\* processFile up to its await
ProcessFileClick ==
  /\ ClickOutside
  /\ FileButtonEnabled
  /\ selectedFile # Null
  /\ Len(processingResults) < MaxLog
  /\ isProcessing' = TRUE
  /\ processingStatus' = StatusText("Processing file...")
  /\ runs' = Append(runs, FileRun(selectedFile))
  /\ dispatched' = <<selectedFile>>
  /\ runStartLen' = Len(processingResults)
  /\ UNCHANGED <<healthVars, selectionVars, processingResults, editingTag, now, timers>>

\* processFile: does the outcome schedule setTimeout(checkBackendStatus, 1000)?
\* (line 425 for a resolved dispatch, line 433 for a thrown one)
FileRecheck(result) ==
  IF result.kind = "result"
    THEN ~result.success /\ result.error # Null /\ Includes(result.error, "Ollama")
    ELSE Includes(result.error, "connection") \/ Includes(result.error, "timeout")
         \/ Includes(result.error, "Ollama")

\* processFile: the status line after the dispatch
FileStatus(result) ==
  IF result.kind = "result"
    THEN IF result.success THEN StatusText("File processed successfully!")
                           ELSE StatusText("Processing failed")
    ELSE IF FileRecheck(result)
           THEN StatusText("Connection error - checking Ollama status...")
           ELSE StatusText("Error processing file")

\* ProcessFileResolve without the finally block
ProcessFileResolveNoFinally(k, result) ==
  /\ k \in 1..Len(runs)
  /\ runs[k].kind = "file"
  /\ processingResults' = Prepend(EntryFor(0, runs[k].target, result, Null),
                                  processingResults)
  /\ processingStatus' = FileStatus(result)
  /\ IF FileRecheck(result)
       THEN timers < MaxTimers /\ timers' = timers + 1
       ELSE timers' = timers
  /\ runs' = Without(runs, k)
  /\ UNCHANGED <<healthVars, selectionVars, editingTag, now, dispatched, runStartLen,
                 isProcessing>>

\* processFile after its await (try, catch and finally)
ProcessFileResolve(k, result) ==
  /\ k \in 1..Len(runs)
  /\ runs[k].kind = "file"
  /\ processingResults' = Prepend(EntryFor(0, runs[k].target, result, Null),
                                  processingResults)
  /\ processingStatus' = FileStatus(result)
  /\ IF FileRecheck(result)
       THEN timers < MaxTimers /\ timers' = timers + 1
       ELSE timers' = timers
  /\ isProcessing' = FALSE
  /\ runs' = Without(runs, k)
  /\ UNCHANGED <<healthVars, selectionVars, editingTag, now, dispatched, runStartLen>>

\* processFolder up to its first await
ProcessFolderClick ==
  /\ ClickOutside
  /\ FolderButtonEnabled
  /\ selectedFolder # Null
  /\ isProcessing' = TRUE
  /\ processingStatus' = StatusText("Starting folder processing...")
  /\ runs' = Append(runs, FolderRun(selectedFolder))
  /\ dispatched' = <<>>
  /\ runStartLen' = Len(processingResults)
  /\ UNCHANGED <<healthVars, selectionVars, processingResults, editingTag, now, timers>>

\* `Processing file i/n: name`
Progress(i, n) == Status("Processing file", i, 0, 0, n)
\* `Folder processing complete: s successful, e failed out of n files`
Complete(s, e, n) == Status("Folder processing complete", 0, s, e, n)

\* ListingFailed without the `if (!fileListResult.success) throw`
ListingFailedOnlyThrow(res) == res.kind = "throw"

\* did get_folder_files fail (success false, or the invoke threw)?
ListingFailed(res) == res.kind = "throw" \/ ~res.success

\* processFolder after the listing await, up to the first dispatch
ListingResolve(k, res) ==
  /\ k \in 1..Len(runs)
  /\ runs[k].kind = "folder" /\ runs[k].pc = "listing"
  /\ IF ListingFailed(res)
       THEN /\ processingStatus' = StatusText("Error starting folder processing")
            /\ isProcessing' = FALSE
            /\ runs' = Without(runs, k)
            /\ UNCHANGED dispatched
       ELSE /\ Len(processingResults) + Len(res.files) <= MaxLog
            /\ IF Len(res.files) = 0
                 THEN /\ processingStatus' = Complete(0, 0, 0)
                      /\ isProcessing' = FALSE
                      /\ runs' = Without(runs, k)
                      /\ UNCHANGED dispatched
                 ELSE /\ processingStatus' = Progress(1, Len(res.files))
                      /\ runs' = [runs EXCEPT ![k].pc = "item",
                                              ![k].files = res.files,
                                              ![k].call = res.files[1]]
                      /\ dispatched' = Append(dispatched, res.files[1])
                      /\ UNCHANGED isProcessing
  /\ UNCHANGED <<healthVars, selectionVars, processingResults, editingTag, now,
                 timers, runStartLen>>

\* CountedRun with the catch block's errorCount++ left out
CountedRunDropsThrown(run, result) ==
  [run EXCEPT !.processedCount = @ + 1,
              !.successCount = IF result.kind = "result" /\ result.success
                                 THEN @ + 1 ELSE @,
              !.errorCount = IF result.kind = "result" /\ ~result.success
                               THEN @ + 1 ELSE @]

\* CountedRun with successCount++ for every resolved dispatch, failed or not
CountedRunResolvedIsSuccess(run, result) ==
  [run EXCEPT !.processedCount = @ + 1,
              !.successCount = IF result.kind = "result" THEN @ + 1 ELSE @,
              !.errorCount = IF result.kind = "result" THEN @ ELSE @ + 1]

\* the loop counters after the dispatch of one item resolved
CountedRun(run, result) ==
  [run EXCEPT !.processedCount = @ + 1,
              !.successCount = IF result.kind = "result" /\ result.success
                                 THEN @ + 1 ELSE @,
              !.errorCount = IF result.kind = "result" /\ result.success
                               THEN @ ELSE @ + 1]

\* MoreItems with a failed item ending the loop
MoreItemsStopsOnFailure(run, result) ==
  /\ run.processedCount < Len(run.files)
  /\ result.kind = "result" /\ result.success

\* `for (const filePath of files)`: is there a next pass after the one that
\* left the counters in `run`?  (the outcome of the pass plays no part)
MoreItems(run, result) == run.processedCount < Len(run.files)

\* processFolder: one pass of the for loop after its await, then either the
\* next dispatch or the summary and the finally block
ItemResolve(k, result) ==
  /\ k \in 1..Len(runs)
  /\ runs[k].kind = "folder" /\ runs[k].pc = "item"
  /\ LET run == runs[k]
         filePath == run.files[run.processedCount + 1]
         next == CountedRun(run, result)
     IN /\ processingResults' =
             Prepend(EntryFor(run.processedCount, filePath, result, run.target),
                     processingResults)
        /\ IF MoreItems(next, result)
             THEN /\ processingStatus' = Progress(next.processedCount + 1, Len(run.files))
                  /\ runs' = [runs EXCEPT ![k] =
                                [next EXCEPT !.call = run.files[next.processedCount + 1]]]
                  /\ dispatched' = Append(dispatched, run.files[next.processedCount + 1])
                  /\ UNCHANGED isProcessing
             ELSE /\ processingStatus' =
                       Complete(next.successCount, next.errorCount, Len(run.files))
                  /\ isProcessing' = FALSE
                  /\ runs' = Without(runs, k)
                  /\ UNCHANGED dispatched
  /\ UNCHANGED <<healthVars, selectionVars, editingTag, now, timers, runStartLen>>

\* ClearResults for a button with disabled={processingResults.length === 0}
ClearResultsIgnoresBusy ==
  /\ ClickOutside
  /\ Len(processingResults) # 0
  /\ processingResults' = <<>>
  /\ processingStatus' = StatusText("")
  /\ UNCHANGED <<healthVars, selectionVars, isProcessing, runs, dispatched,
                 runStartLen, editingTag, now, timers>>

\* the "Clear Results" button
\* (disabled={isProcessing || processingResults.length === 0}); clearResults
ClearResults ==
  /\ ClickOutside
  /\ ~isProcessing
  /\ Len(processingResults) # 0
  /\ processingResults' = <<>>
  /\ processingStatus' = StatusText("")
  /\ UNCHANGED <<healthVars, selectionVars, isProcessing, runs, dispatched,
                 runStartLen, editingTag, now, timers>>

(* ----------------------------- Tag Editor ------------------------------ *)
\* String.prototype.trim
Whitespace == {" "}
RECURSIVE TrimStart(_)
TrimStart(s) ==
  IF s = <<>> THEN s
  ELSE IF Head(s) \in Whitespace THEN TrimStart(Tail(s)) ELSE s
RECURSIVE TrimEnd(_)
TrimEnd(s) ==
  IF s = <<>> THEN s
  ELSE IF s[Len(s)] \in Whitespace THEN TrimEnd(SubSeq(s, 1, Len(s) - 1)) ELSE s
Trim(s) == TrimEnd(TrimStart(s))

\* Splice1 for newTags.splice(tagIndex), which drops every tag from tagIndex on
Splice1ToEnd(tags, tagIndex) ==
  IF tagIndex < Len(tags)
    THEN SubSeq(tags, 1, tagIndex)
    ELSE tags

\* newTags.splice(tagIndex, 1) on a copy, tagIndex >= 0 counted from 0
Splice1(tags, tagIndex) ==
  IF tagIndex < Len(tags)
    THEN SubSeq(tags, 1, tagIndex) \o SubSeq(tags, tagIndex + 2, Len(tags))
    ELSE tags

\* AssignAt for newTags.splice(tagIndex, 0, text), which inserts the text
AssignAtInserts(tags, tagIndex, text) ==
  IF tagIndex < Len(tags)
    THEN SubSeq(tags, 1, tagIndex) \o <<text>> \o SubSeq(tags, tagIndex + 1, Len(tags))
    ELSE tags \o <<text>>

\* newTags[tagIndex] = text on a copy: an index past the end grows the array
\* and leaves holes below it
AssignAt(tags, tagIndex, text) ==
  [j \in 1..(IF tagIndex + 1 > Len(tags) THEN tagIndex + 1 ELSE Len(tags)) |->
     IF j = tagIndex + 1 THEN text
     ELSE IF j <= Len(tags) THEN tags[j] ELSE Undefined]

\* RemoveTag for prev.filter(result => result.id !== resultId)
RemoveTagDropsEntry(prev, resultId, tagIndex) ==
  SelectSeq(prev, LAMBDA result : result.id # resultId)

\* RemoveTag without the `result.id === resultId` test
RemoveTagNoIdCheck(prev, resultId, tagIndex) ==
  [p \in 1..Len(prev) |-> [prev[p] EXCEPT !.tags = Splice1(@, tagIndex)]]

\* removeTag: prev.map(...)
RemoveTag(prev, resultId, tagIndex) ==
  [p \in 1..Len(prev) |->
     IF prev[p].id = resultId
       THEN [prev[p] EXCEPT !.tags = Splice1(@, tagIndex)]
       ELSE prev[p]]

\* SaveEditedTag testing `newValue === ''` without the trim
SaveEditedTagNoTrim(prev, resultId, tagIndex, newValue) ==
  IF newValue = <<>>
    THEN RemoveTag(prev, resultId, tagIndex)
    ELSE [p \in 1..Len(prev) |->
            IF prev[p].id = resultId
              THEN [prev[p] EXCEPT !.tags = AssignAt(@, tagIndex, Trim(newValue))]
              ELSE prev[p]]

\* saveEditedTag: the Result Log it leaves
SaveEditedTag(prev, resultId, tagIndex, newValue) ==
  IF Trim(newValue) = <<>>
    THEN RemoveTag(prev, resultId, tagIndex)
    ELSE [p \in 1..Len(prev) |->
            IF prev[p].id = resultId
              THEN [prev[p] EXCEPT !.tags = AssignAt(@, tagIndex, Trim(newValue))]
              ELSE prev[p]]

\* every text of at most MaxText characters
Texts == UNION {[1..n -> Chars] : n \in 0..MaxText}
\* the texts the user types into the tag input: nothing, whitespace only,
\* and a word with whitespace around it
TypedTexts == {<<>>, <<" ">>, <<" ", "x", " ">>}

\* StartEditingTag for a click that reaches the tag while another tag's input
\* still has the focus
StartEditingTagWithoutBlur(p, i) ==
  /\ TagRendered(p, i)
  /\ ~IsEditing(p, i)
  /\ editingTag' = [resultId |-> processingResults[p].id, tagIndex |-> i,
                    value |-> processingResults[p].tags[i + 1]]
  /\ UNCHANGED <<healthVars, selectionVars, batchVars, processingResults, now, timers>>

\* click on a tag text: startEditingTag(result.id, index, tag)
StartEditingTag(p, i) ==
  /\ ClickOutside
  /\ TagRendered(p, i)
  /\ ~IsEditing(p, i)
  /\ editingTag' = [resultId |-> processingResults[p].id, tagIndex |-> i,
                    value |-> processingResults[p].tags[i + 1]]
  /\ UNCHANGED <<healthVars, selectionVars, batchVars, processingResults, now, timers>>

\* ChangeTagInput for setEditingTag({ value: e.target.value }), which drops
\* the target of the edit
ChangeTagInputDropsTarget(p, i, text) ==
  /\ TagRendered(p, i)
  /\ IsEditing(p, i)
  /\ editingTag' = [resultId |-> -1, tagIndex |-> -1, value |-> text]
  /\ UNCHANGED <<healthVars, selectionVars, batchVars, processingResults, now, timers>>

\* onChange of the tag input
ChangeTagInput(p, i, text) ==
  /\ TagRendered(p, i)
  /\ IsEditing(p, i)
  /\ editingTag' = [editingTag EXCEPT !.value = text]
  /\ UNCHANGED <<healthVars, selectionVars, batchVars, processingResults, now, timers>>

\* saveEditedTag(result.id, index, editingTag.value), called by onBlur and,
\* through handleTagKeyPress, by the Enter key
CommitEdit(p, i) ==
  /\ TagRendered(p, i)
  /\ IsEditing(p, i)
  /\ processingResults' =
       SaveEditedTag(processingResults, processingResults[p].id, i, editingTag.value)
  /\ editingTag' = NoEdit
  /\ UNCHANGED <<healthVars, selectionVars, batchVars, now, timers>>

\* onBlur of the tag input
TagInputBlur(p, i) == CommitEdit(p, i)

\* handleTagKeyPress, e.key === 'Enter'
TagKeyEnter(p, i) == CommitEdit(p, i)

\* handleTagKeyPress, e.key === 'Escape': cancelEditingTag
TagKeyEscape(p, i) ==
  /\ TagRendered(p, i)
  /\ IsEditing(p, i)
  /\ editingTag' = NoEdit
  /\ UNCHANGED <<healthVars, selectionVars, batchVars, processingResults, now, timers>>

\* the x button of a tag: removeTag(result.id, index)
RemoveTagClick(p, i) ==
  /\ ClickOutside
  /\ TagRendered(p, i)
  /\ processingResults' = RemoveTag(processingResults, processingResults[p].id, i)
  /\ UNCHANGED <<healthVars, selectionVars, batchVars, editingTag, now, timers>>

(* --------------------------- specifications ---------------------------- *)
Positions == 1..MaxLog
Indexes == 0..(Len(ReturnedTags) - 1)

\* Selection Manager, Batch Processor and Result Log, with the Health
\* Monitor's probe; per-item failures are content errors
Next ==
  \/ Tick
  \/ SelectFileClick
  \/ \E filePath \in PickableFiles \cup {Null, DialogThrown} : SelectFileResolve(filePath)
  \/ SelectFolderClick
  \/ \E folderPath \in PickableFolders \cup {Null, DialogThrown} : SelectFolderResolve(folderPath)
  \/ ProcessFileClick
  \/ \E k \in 1..Len(runs), result \in ContentOutcomes : ProcessFileResolve(k, result)
  \/ ProcessFolderClick
  \/ \E k \in 1..Len(runs), res \in ListOutcomes : ListingResolve(k, res)
  \/ \E k \in 1..Len(runs), result \in ContentOutcomes : ItemResolve(k, result)
  \/ ClearResults

Spec == Init /\ [][Next]_vars

\* Health Monitor with single-file dispatch over every failure message
NextHealth ==
  \/ \E k \in 1..Len(probes), status \in ProbeOutcomes : CheckResolve(k, status)
  \/ RetryConnection
  \/ TimerFire
  \/ SelectFileClick
  \/ \E filePath \in PickableFiles \cup {Null} : SelectFileResolve(filePath)
  \/ ProcessFileClick
  \/ \E k \in 1..Len(runs), result \in AllOutcomes : ProcessFileResolve(k, result)
  \/ ClearResults

SpecHealth == Init /\ [][NextHealth]_vars

\* Tag Editor over entries produced by successful single-file dispatches
NextEdit ==
  \/ Tick
  \/ SelectFileClick
  \/ \E filePath \in PickableFiles : SelectFileResolve(filePath)
  \/ ProcessFileClick
  \/ \E k \in 1..Len(runs), result \in OkOutcomes : ProcessFileResolve(k, result)
  \/ \E p \in Positions, i \in Indexes : StartEditingTag(p, i)
  \/ \E p \in Positions, i \in Indexes, text \in TypedTexts : ChangeTagInput(p, i, text)
  \/ \E p \in Positions, i \in Indexes : TagInputBlur(p, i)
  \/ \E p \in Positions, i \in Indexes : TagKeyEnter(p, i)
  \/ \E p \in Positions, i \in Indexes : TagKeyEscape(p, i)
  \/ \E p \in Positions, i \in Indexes : RemoveTagClick(p, i)
  \/ ClearResults

SpecEdit == Init /\ [][NextEdit]_vars

\* Health Monitor with folder runs over every failure message (the folder
\* loop sets no timer, so there is none to fire)
NextFolderHealth ==
  \/ \E k \in 1..Len(probes), status \in ProbeOutcomes : CheckResolve(k, status)
  \/ RetryConnection
  \/ SelectFolderClick
  \/ \E folderPath \in PickableFolders : SelectFolderResolve(folderPath)
  \/ ProcessFolderClick
  \/ \E k \in 1..Len(runs), res \in ListOutcomes : ListingResolve(k, res)
  \/ \E k \in 1..Len(runs), result \in AllOutcomes : ItemResolve(k, result)
  \/ ClearResults

SpecFolderHealth == Init /\ [][NextFolderHealth]_vars

\* Batch Processor alone, where every collaborator call that is in flight
\* eventually resolves or fails
NextBatch ==
  \/ SelectFileClick
  \/ \E filePath \in PickableFiles : SelectFileResolve(filePath)
  \/ SelectFolderClick
  \/ \E folderPath \in PickableFolders : SelectFolderResolve(folderPath)
  \/ ProcessFileClick
  \/ \E k \in 1..Len(runs), result \in ContentOutcomes : ProcessFileResolve(k, result)
  \/ ProcessFolderClick
  \/ \E k \in 1..Len(runs), res \in ListOutcomes : ListingResolve(k, res)
  \/ \E k \in 1..Len(runs), result \in ContentOutcomes : ItemResolve(k, result)
  \/ ClearResults

CallsResolve ==
  /\ WF_vars(\E k \in 1..Len(runs), result \in ContentOutcomes : ProcessFileResolve(k, result))
  /\ WF_vars(\E k \in 1..Len(runs), res \in ListOutcomes : ListingResolve(k, res))
  /\ WF_vars(\E k \in 1..Len(runs), result \in ContentOutcomes : ItemResolve(k, result))

SpecBatch == Init /\ [][NextBatch]_vars /\ CallsResolve

\* Result Log under every kind of operation within one tick of the clock:
\* selection, the startup health check, processFile and the tag editor
NextLog ==
  \/ \E k \in 1..Len(probes), status \in ProbeOutcomes : CheckResolve(k, status)
  \/ SelectFileClick
  \/ \E filePath \in PickableFiles : SelectFileResolve(filePath)
  \/ ProcessFileClick
  \/ \E k \in 1..Len(runs), result \in ContentOutcomes : ProcessFileResolve(k, result)
  \/ \E p \in Positions, i \in Indexes : StartEditingTag(p, i)
  \/ \E p \in Positions, i \in Indexes, text \in TypedTexts : ChangeTagInput(p, i, text)
  \/ \E p \in Positions, i \in Indexes : TagInputBlur(p, i)
  \/ \E p \in Positions, i \in Indexes : TagKeyEnter(p, i)
  \/ \E p \in Positions, i \in Indexes : TagKeyEscape(p, i)
  \/ \E p \in Positions, i \in Indexes : RemoveTagClick(p, i)
  \/ ClearResults

SpecLog == Init /\ [][NextLog]_vars

TypeOK ==
  /\ backendStatus \in {"checking", "connected", "ollama-disconnected", "disconnected"}
  /\ ollamaStatus \in BOOLEAN
  /\ isProcessing \in BOOLEAN
  /\ now \in 0..MaxClock
  /\ timers \in 0..MaxTimers
  /\ Len(probes) <= MaxProbes
  /\ newestCheck \in {"checking", "connected", "ollama-disconnected", "disconnected"}

(* ------------------------------ claims --------------------------------- *)
FolderDone == processingStatus.kind = "Folder processing complete"
\* the entries the newest run has appended so far
Appended == Len(processingResults) - runStartLen

\* C1: a processFolder run over a listing of N files appends exactly N
\* entries and ends with successCount + errorCount = N: after k passes of the
\* loop k entries are appended and the two counters add up to k, and the
\* summary of a finished run reports N = ok + failed with N entries appended
\* and N files listed
C1_FolderAppendsN ==
  /\ \A k \in 1..Len(runs) :
       runs[k].pc = "item" =>
         /\ Appended = runs[k].processedCount
         /\ runs[k].successCount + runs[k].errorCount = runs[k].processedCount
  /\ FolderDone =>
       /\ Appended = processingStatus.total
       /\ processingStatus.ok + processingStatus.failed = processingStatus.total
       /\ dispatched = Listing(processingStatus.total)

\* a finished run over 2 files, one thrown dispatch and one success
C1_Witness ==
  /\ FolderDone
  /\ processingStatus.total = 2
  /\ processingStatus.ok = 1
  /\ \E p \in 1..2 : processingResults[p].model = "Error"

\* C2: a failed item never stops the loop: the files of the listing are
\* dispatched once each in listing order, and every resolved dispatch has its
\* own entry (the k newest entries are the first k files, newest first)
C2_FailureIsolation ==
  /\ \A k \in 1..Len(runs) :
       runs[k].pc = "item" =>
         /\ dispatched = SubSeq(runs[k].files, 1, runs[k].processedCount + 1)
         /\ \A j \in 1..runs[k].processedCount :
              processingResults[j].path = runs[k].files[runs[k].processedCount + 1 - j]
  /\ FolderDone =>
       /\ dispatched = Listing(processingStatus.total)
       /\ \A j \in 1..processingStatus.total :
            processingResults[j].path =
              Listing(processingStatus.total)[processingStatus.total + 1 - j]

\* the first of two files failed and the second was still processed
C2_Witness ==
  /\ FolderDone
  /\ processingStatus.total = 2
  /\ ~processingResults[2].success
  /\ processingResults[1].success
  /\ processingResults[1].path = Listing(2)[2]

\* C3: when get_folder_files returns success=false or throws, the run ends in
\* that step: nothing was or is dispatched, the Result Log is unchanged, the
\* status line is the one abort message, and the busy flag is cleared
C3_ListingFailureAborts ==
  [][\A k \in 1..Len(runs), res \in ListOutcomes :
       ((res.kind = "throw" \/ ~res.success) /\ ListingResolve(k, res)) =>
         /\ dispatched = <<>> /\ dispatched' = <<>>
         /\ processingResults' = processingResults
         /\ processingStatus' = StatusText("Error starting folder processing")
         /\ ~isProcessing'
         /\ runs' = <<>>]_vars

\* an aborted folder run on top of an older entry
C3_Witness ==
  /\ processingStatus.kind = "Error starting folder processing"
  /\ ~isProcessing
  /\ dispatched = <<>>
  /\ Len(processingResults) = 1

\* C4: no two entries of the Result Log have the same id
C4_UniqueIds ==
  \A p, q \in 1..Len(processingResults) :
    p # q => processingResults[p].id # processingResults[q].id

\* C5: at most one of selectedFile and selectedFolder is set; a picked file
\* clears the folder, a picked folder clears the file, and a cancelled or
\* failed dialog leaves both as they were
C5_SelectionExclusive ==
  [][/\ selectedFile = Null \/ selectedFolder = Null
     /\ selectedFile' = Null \/ selectedFolder' = Null
     /\ \A path \in PickableFiles :
          SelectFileResolve(path) => selectedFile' = path /\ selectedFolder' = Null
     /\ \A path \in PickableFolders :
          SelectFolderResolve(path) => selectedFolder' = path /\ selectedFile' = Null
     /\ \A none \in {Null, DialogThrown} :
          (SelectFileResolve(none) \/ SelectFolderResolve(none)) =>
            UNCHANGED <<selectedFile, selectedFolder>>]_vars

\* a folder is selected after a file had been selected and processed
C5_Witness ==
  /\ selectedFolder = "/docs"
  /\ selectedFile = Null
  /\ Len(processingResults) > 0
  /\ processingResults[1].fromFolder = Null

\* the table of section 4.1 of the specification
StatusTable(status) ==
  IF status.kind = "throw" \/ ~status.backend_connected THEN "disconnected"
  ELSE IF ~status.ollama_connected THEN "ollama-disconnected"
  ELSE "connected"

\* C6: when a health check resolves, backendStatus is the table's value for
\* the probe outcome, whatever the state before
C6_StatusFromProbe ==
  [][\A k \in 1..Len(probes), status \in ProbeOutcomes :
       CheckResolve(k, status) => backendStatus' = StatusTable(status)]_vars

\* a check has resolved with the backend up and the model down
C6_Witness ==
  /\ backendStatus = "ollama-disconnected"
  /\ probes = <<>>

\* C7: a run starts only when the processor is idle and the status is
\* "connected"
C7_DispatchNeedsConnected ==
  [][(Len(runs') > Len(runs)) => (~isProcessing /\ backendStatus = "connected")]_vars

\* C8: at most one collaborator call of the Batch Processor is in flight, and
\* within a folder run each dispatch starts after the one before resolved
C8_OneInFlight ==
  /\ Len(runs) <= 1
  /\ (Len(runs) = 1) = isProcessing
  /\ \A k \in 1..Len(runs) :
       runs[k].pc = "item" => Len(dispatched) = Appended + 1

\* the second item of a folder run is in flight
C8_Witness ==
  /\ Len(runs) = 1
  /\ runs[1].pc = "item"
  /\ runs[1].processedCount = 1
  /\ runs[1].call = Listing(2)[2]

\* text is empty or consists of whitespace only
Blank(text) == \A j \in 1..Len(text) : text[j] = " "

\* C9: setTag with an empty or whitespace-only text leaves the same Result Log
\* as removeTag, for every entry of every reachable log, every index (in
\* range or one past the end) and every such text of up to MaxText characters
C9_BlankSetIsRemove ==
  \A p \in 1..Len(processingResults), i \in 0..Len(ReturnedTags), text \in Texts :
    Blank(text) =>
      SaveEditedTag(processingResults, processingResults[p].id, i, text)
        = RemoveTag(processingResults, processingResults[p].id, i)

\* a whitespace-only text is about to be committed on the first of two tags
C9_Witness ==
  /\ editingTag # NoEdit
  /\ editingTag.value = <<" ">>
  /\ editingTag.tagIndex = 0
  /\ \E p \in 1..Len(processingResults) :
       /\ IsEditing(p, 0)
       /\ processingResults[p].tags = ReturnedTags
       /\ SaveEditedTag(processingResults, editingTag.resultId, 0, editingTag.value)[p].tags
            = <<Tag2024>>

\* the tokens processFile looks for in a failure message
ConnectivityTokens == {"connection", "timeout", "Ollama"}
ConnectivityFailure(result) ==
  /\ ~result.success
  /\ result.error # Null
  /\ TokensOf(result.error) \cap ConnectivityTokens # {}

\* C10: a processFile failure (failed result or thrown error) whose message
\* contains a connectivity token schedules exactly one re-check and starts
\* none in that step; any other outcome schedules none
C10_RecheckOnConnectivityFailure ==
  [][\A k \in 1..Len(runs), result \in AllOutcomes :
       ProcessFileResolve(k, result) =>
         /\ timers' = timers + (IF ConnectivityFailure(result) THEN 1 ELSE 0)
         /\ probes' = probes]_vars

\* C11: at no time is more than one automatic re-check pending, and no two
\* health probes are in flight at the same time
C11_SingleRecheck ==
  /\ timers <= 1
  /\ Len(probes) <= 1

\* C12: whenever a tag is being edited, editingTag.resultId is the id of an
\* entry of the Result Log and editingTag.tagIndex is an index into that
\* entry's tags
C12_EditSessionValid ==
  editingTag # NoEdit =>
    \E p \in 1..Len(processingResults) :
      /\ processingResults[p].id = editingTag.resultId
      /\ editingTag.tagIndex \in 0..(Len(processingResults[p].tags) - 1)

\* a tag is being edited in an entry from which a tag has been removed
C12_Witness ==
  /\ editingTag # NoEdit
  /\ \E p \in 1..Len(processingResults) :
       /\ IsEditing(p, 0)
       /\ processingResults[p].tags = <<Tag2024>>

\* C13: every step that lengthens the Result Log puts exactly one new entry
\* at its head and keeps the older entries in their order; after a folder
\* run the entries it added are at the head, the last dispatched file first
C13_NewestFirst ==
  [][/\ (Len(processingResults') > Len(processingResults)) =>
          Tail(processingResults') = processingResults
     /\ FolderDone' =>
          /\ Appended' = Len(dispatched')
          /\ \A j \in 1..Appended' :
               processingResults'[j].path = dispatched'[Len(dispatched') + 1 - j]]_vars

\* a folder run over two different files has completed: its two entries are
\* in the log in reverse order of dispatch
C13_Witness ==
  /\ FolderDone
  /\ Len(dispatched) = 2
  /\ dispatched[1] # dispatched[2]
  /\ Len(processingResults) = 2
  /\ processingResults[1].path = dispatched[2]
  /\ processingResults[2].path = dispatched[1]

\* C14: a processFile run issues one dispatch, for the selected path, when it
\* starts, and when the dispatch completes it adds exactly one entry for that
\* path and issues no further dispatch: the entry has no fromFolder; on
\* success it has success = true with the returned tags and model, on a
\* failed result or a thrown error success = false with the error message
C14_FileRunOneEntry ==
  [][/\ ProcessFileClick =>
          /\ dispatched' = <<selectedFile>>
          /\ processingResults' = processingResults
     /\ \A k \in 1..Len(runs), result \in ContentOutcomes :
          ProcessFileResolve(k, result) =>
            /\ Len(processingResults') = Len(processingResults) + 1
            /\ Tail(processingResults') = processingResults
            /\ dispatched' = dispatched
            /\ dispatched = <<runs[k].target>>
            /\ processingResults'[1].path = runs[k].target
            /\ processingResults'[1].fromFolder = Null
            /\ processingResults'[1].success = result.success
            /\ IF result.success
                 THEN /\ processingResults'[1].tags = result.tags
                      /\ processingResults'[1].model = result.model
                 ELSE processingResults'[1].error = result.error]_vars

\* a processFile run whose dispatch threw has left its failure entry
C14_Witness ==
  /\ processingStatus = StatusText("Error processing file")
  /\ dispatched = <<"/a/report.txt">>
  /\ Len(processingResults) = 1
  /\ processingResults[1].path = "/a/report.txt"
  /\ ~processingResults[1].success
  /\ processingResults[1].model = "Error"
  /\ processingResults[1].error = MsgContent
  /\ processingResults[1].fromFolder = Null

\* the entries among the n newest of the log whose success flag is b
CountNewest(n, b) ==
  Cardinality({j \in 1..n : processingResults[j].success = b})

\* C15: the summary of a finished processFolder run matches the log: its
\* success count is the number of entries the run added with success = true,
\* its fail count the number it added with success = false, and its total the
\* number of listed files
C15_SummaryMatchesLog ==
  FolderDone =>
    /\ Appended \in 0..Len(processingResults)
    /\ processingStatus.ok = CountNewest(Appended, TRUE)
    /\ processingStatus.failed = CountNewest(Appended, FALSE)
    /\ processingStatus.total = Len(dispatched)
    /\ \A j \in 1..Appended : processingResults[j].path = dispatched[Appended + 1 - j]

\* Scenario B: both files of /docs succeeded and the summary reads
\* "2 successful, 0 failed out of 2 files"
C15_Witness ==
  /\ processingStatus = Complete(2, 0, 2)
  /\ Len(processingResults) = 2
  /\ \A j \in 1..2 : /\ processingResults[j].success
                     /\ processingResults[j].fromFolder = "/docs"

\* C16: a commit (Enter or loss of focus) of the edit of tag i of an entry
\* ends the edit and leaves the log that setTag(resultId, tagIndex, value)
\* gives: a blank value takes tag i out of the entry, whose tag count drops
\* by exactly one, any other value puts the trimmed value in place of tag i;
\* a cancel (Escape) ends the edit and leaves the Result Log as it was
C16_CommitAndCancel ==
  [][\A p \in Positions, i \in Indexes :
       /\ (TagInputBlur(p, i) \/ TagKeyEnter(p, i)) =>
            /\ editingTag' = NoEdit
            /\ processingResults' =
                 SaveEditedTag(processingResults, editingTag.resultId,
                               editingTag.tagIndex, editingTag.value)
            /\ LET old == processingResults[p].tags
                   new == processingResults'[p].tags
               IN IF Blank(editingTag.value)
                    THEN /\ Len(new) = Len(old) - 1
                         /\ \A j \in 1..Len(new) :
                              new[j] = IF j <= i THEN old[j] ELSE old[j + 1]
                    ELSE new = [old EXCEPT ![i + 1] = Trim(editingTag.value)]
       /\ TagKeyEscape(p, i) =>
            /\ editingTag' = NoEdit
            /\ processingResults' = processingResults]_vars

\* Scenario C: the first of an entry's two tags is being edited and its text
\* has been emptied
C16_Witness ==
  /\ editingTag # NoEdit
  /\ editingTag.value = <<>>
  /\ editingTag.tagIndex = 0
  /\ \E p \in 1..Len(processingResults) :
       /\ processingResults[p].id = editingTag.resultId
       /\ Len(processingResults[p].tags) = 2

\* `new` differs from the Result Log at most in the tags of entries with id rid
OnlyTagsOf(rid, new) ==
  /\ Len(new) = Len(processingResults)
  /\ \A p \in 1..Len(processingResults) :
       /\ [new[p] EXCEPT !.tags = processingResults[p].tags] = processingResults[p]
       /\ processingResults[p].id # rid => new[p] = processingResults[p]
  /\ (\A p \in 1..Len(processingResults) : processingResults[p].id # rid)
       => new = processingResults

\* C17: removeTag and setTag change nothing but the tags of the entry with
\* the given id: its other fields, the length and order of the log and every
\* other entry stay, and with an id no entry has the log stays as it is; for
\* every reachable log, every id in it and an absent one, every index (in
\* range or past the end) and every text of up to MaxText characters
C17_OnlyTagsChange ==
  LET ids == {processingResults[p].id : p \in 1..Len(processingResults)}
      \* an id no entry has: ids are at most MaxClock + MaxFiles
      absent == MaxClock + MaxFiles + 1
  IN \A rid \in ids \cup {absent}, i \in 0..Len(ReturnedTags), text \in Texts :
       /\ absent \notin ids
       /\ OnlyTagsOf(rid, RemoveTag(processingResults, rid, i))
       /\ OnlyTagsOf(rid, SaveEditedTag(processingResults, rid, i, text))

\* two entries with different ids, the older one with a tag removed and the
\* newer one untouched
C17_Witness ==
  /\ Len(processingResults) = 2
  /\ processingResults[1].id # processingResults[2].id
  /\ processingResults[1].tags = ReturnedTags
  /\ processingResults[2].tags = <<Tag2024>>

\* C18: a processFile request with no file selected, or while the status is
\* not "connected", is rejected: it starts no run, makes no collaborator
\* call, and leaves the busy flag and the Result Log as they were
C18_RejectedDispatch ==
  [][(selectedFile = Null \/ backendStatus # "connected") =>
       /\ ~ProcessFileClick
       /\ Len(runs') <= Len(runs)
       /\ dispatched' = dispatched
       /\ (isProcessing' => isProcessing)]_vars

\* C19: when the dispatch of a folder item resolves, a re-check is scheduled
\* exactly when processFile would schedule one for the same outcome, and the
\* loop goes on to the next listed file
C19_FolderItemRecheck ==
  [][\A k \in 1..Len(runs), result \in AllOutcomes :
       ItemResolve(k, result) =>
         /\ timers' = timers + (IF FileRecheck(result) THEN 1 ELSE 0)
         /\ (runs[k].processedCount + 1 < Len(runs[k].files)) =>
              /\ Len(runs') = Len(runs)
              /\ runs'[k].call = runs[k].files[runs[k].processedCount + 2]]_vars

\* C20: an edit never changes its target in one step: whenever an edit is
\* active before and after a step it is the edit of the same tag of the same
\* entry, so a new edit starts only from the state with no edit, after the
\* prior one was committed or cancelled
C20_EditResolvedFirst ==
  [][/\ (editingTag # NoEdit /\ editingTag' # NoEdit) =>
          /\ editingTag'.resultId = editingTag.resultId
          /\ editingTag'.tagIndex = editingTag.tagIndex
     /\ \A p \in Positions, i \in Indexes :
          StartEditingTag(p, i) => editingTag = NoEdit]_vars

\* the second tag of an entry is being edited after an edit of its first tag
\* was committed with the text "x"
C20_Witness ==
  /\ editingTag # NoEdit
  /\ editingTag.tagIndex = 1
  /\ \E p \in 1..Len(processingResults) :
       /\ IsEditing(p, 1)
       /\ processingResults[p].tags[1] = <<"x">>

\* C21: folder results are streamed: in the step that starts the dispatch of
\* the next item of a processFolder run, the Result Log holds the entries of
\* all items dispatched before, newest first, and no step taken while a run
\* is in flight takes an entry out of the log
C21_Streamed ==
  [][/\ \A k \in 1..Len(runs), result \in ContentOutcomes :
          (ItemResolve(k, result) /\ Len(dispatched') > Len(dispatched)) =>
            /\ Len(processingResults') - runStartLen = Len(dispatched)
            /\ \A j \in 1..Len(dispatched) :
                 /\ processingResults'[j].path = dispatched[Len(dispatched) + 1 - j]
                 /\ processingResults'[j].fromFolder = runs[k].target
     /\ runs # <<>> =>
          /\ Len(processingResults') >= Len(processingResults)
          /\ SubSeq(processingResults', Len(processingResults') - Len(processingResults) + 1,
                    Len(processingResults')) = processingResults]_vars

\* the second file of a folder run is being dispatched and the entry of the
\* first is in the log
C21_Witness ==
  /\ Len(runs) = 1
  /\ runs[1].kind = "folder" /\ runs[1].pc = "item"
  /\ runs[1].processedCount = 1
  /\ runs[1].call = runs[1].files[2]
  /\ processingResults # <<>>
  /\ processingResults[1].path = runs[1].files[1]

\* C22: every processFile or processFolder run that starts ends with the busy
\* flag cleared, whatever its collaborator calls resolve with, and the busy
\* flag is set for as long as a call of a run is in flight
C22_RunsEnd ==
  /\ isProcessing ~> (~isProcessing /\ runs = <<>>)
  /\ [](runs # <<>> => isProcessing)

\* a processFile run has ended on a failed result with the busy flag cleared
C22_Witness ==
  /\ ~isProcessing
  /\ runs = <<>>
  /\ processingStatus = StatusText("Processing failed")

\* the entries of the Result Log are the same before and after the step, in
\* the same order, up to their tags
SameEntries ==
  /\ Len(processingResults') = Len(processingResults)
  /\ \A p \in 1..Len(processingResults) :
       [processingResults'[p] EXCEPT !.tags = processingResults[p].tags]
         = processingResults[p]

\* C23: entries are created only by a completed dispatch and destroyed only
\* by clearResults, which empties the log; every other step (selection,
\* health check, start of an edit, typing, cancel, removeTag, setTag) keeps
\* the number and the order of the entries
C23_LogLifecycle ==
  [][/\ Len(processingResults') > Len(processingResults) =>
          \E k \in 1..Len(runs), result \in ContentOutcomes : ProcessFileResolve(k, result)
     /\ Len(processingResults') < Len(processingResults) =>
          ClearResults /\ processingResults' = <<>>
     /\ Len(processingResults') = Len(processingResults) => SameEntries
     /\ \A p \in Positions, i \in Indexes :
          (TagInputBlur(p, i) \/ TagKeyEnter(p, i) \/ RemoveTagClick(p, i)
             \/ TagKeyEscape(p, i) \/ StartEditingTag(p, i)) => SameEntries]_vars

\* a log of two entries, the older one with both tags removed, after a health
\* check has resolved and the selection is set
C23_Witness ==
  /\ Len(processingResults) = 2
  /\ processingResults[2].success /\ processingResults[2].tags = <<>>
  /\ processingResults[1].tags = ReturnedTags
  /\ backendStatus = "connected"
  /\ selectedFile # Null

\* C24: for an entry of the log and an index i of one of its tags, setTag
\* with a text whose trimmed value is not empty puts the trimmed text at
\* index i: the tag count stays and every other tag keeps value and position
C24_SetTagReplaces ==
  \A p \in 1..Len(processingResults), text \in Texts :
    \A i \in 0..(Len(processingResults[p].tags) - 1) :
      ~Blank(text) =>
        LET old == processingResults[p].tags
            new == SaveEditedTag(processingResults, processingResults[p].id, i, text)[p].tags
        IN /\ Len(new) = Len(old)
           /\ new[i + 1] = Trim(text)
           /\ Trim(text) # <<>>
           /\ \A j \in 1..Len(old) : j # i + 1 => new[j] = old[j]

\* the text " x " was committed on the first of two tags and is stored trimmed
C24_Witness ==
  /\ editingTag = NoEdit
  /\ \E p \in 1..Len(processingResults) :
       processingResults[p].tags = <<<<"x">>, Tag2024>>

\* C25: typing into the tag input changes only the pending value of the
\* edit: its resultId and tagIndex, the Result Log, the selection and the
\* health fields stay, and the edit stays active
C25_OnChangeFrame ==
  [][\A p \in Positions, i \in Indexes, text \in TypedTexts :
       ChangeTagInput(p, i, text) =>
         /\ editingTag' # NoEdit
         /\ editingTag'.value = text
         /\ editingTag'.resultId = editingTag.resultId
         /\ editingTag'.tagIndex = editingTag.tagIndex
         /\ IsEditing(p, i)'
         /\ UNCHANGED <<processingResults, selectedFile, selectedFolder,
                        backendStatus, ollamaStatus, statusError>>]_vars

\* " x " has been typed over the second tag of an entry while the status is
\* "ollama-disconnected"
C25_Witness ==
  /\ editingTag # NoEdit
  /\ editingTag.tagIndex = 1
  /\ editingTag.value = <<" ", "x", " ">>
  /\ backendStatus = "ollama-disconnected"
  /\ \E p \in 1..Len(processingResults) :
       IsEditing(p, 1) /\ processingResults[p].tags = ReturnedTags

\* C26: every entry a processFolder run adds has as fromFolder the folder
\* that was selected when the run started, whatever the selection is when the
\* entry is added, and an entry added by processFile has no fromFolder
C26_OriginFolder ==
  [][/\ ProcessFolderClick => runs'[Len(runs')].target = selectedFolder
     /\ \A k \in 1..Len(runs) :
          (Len(runs') = Len(runs) /\ runs[k].kind = "folder") =>
            runs'[k].target = runs[k].target
     /\ \A k \in 1..Len(runs), result \in ContentOutcomes :
          /\ ItemResolve(k, result) =>
               processingResults'[1].fromFolder = runs[k].target
          /\ ProcessFileResolve(k, result) =>
               processingResults'[1].fromFolder = Null]_vars

\* a picker opened before a run over /docs has resolved to /pics during the
\* run, and the entry of the first file carries /docs
C26_Witness ==
  /\ Len(runs) = 1
  /\ runs[1].kind = "folder" /\ runs[1].pc = "item"
  /\ runs[1].target = "/docs"
  /\ selectedFolder = "/pics"
  /\ processingResults # <<>>
  /\ processingResults[1].fromFolder = "/docs"

\* C27: once every health check that was started has resolved, the displayed
\* status is the one of the check that was started last
C27_NewestCheckWins ==
  probes = <<>> => backendStatus = newestCheck

\* C28: the three health fields agree: with status "connected" the model is
\* flagged reachable and no status error is set; with status
\* "ollama-disconnected" or "disconnected" the model is flagged unreachable
\* and a status error is set
C28_HealthFieldsAgree ==
  /\ backendStatus = "connected" => (ollamaStatus /\ statusError = Null)
  /\ backendStatus \in {"ollama-disconnected", "disconnected"} =>
       (~ollamaStatus /\ statusError # Null)

\* C29: no step of the tag editor (start of an edit, typing, commit, cancel,
\* removal) makes the tag list of an entry longer, and no tag list of the
\* log has an undefined element
C29_TagsNeverGrow ==
  [][/\ Len(processingResults') = Len(processingResults) =>
          \A p \in 1..Len(processingResults) :
            Len(processingResults'[p].tags) <= Len(processingResults[p].tags)
     /\ \A p \in 1..Len(processingResults') :
          \A j \in 1..Len(processingResults'[p].tags) :
            processingResults'[p].tags[j] # Undefined]_vars

\* the positions at which `new` differs from the Result Log
Changed(new) == {q \in 1..Len(processingResults) : new[q] # processingResults[q]}

\* C30: one removeTag or setTag call changes the tags of at most one entry of
\* the log, for every entry's id, every index of its tags and every text of
\* up to MaxText characters
C30_OneEntryChanges ==
  \A p \in 1..Len(processingResults), text \in Texts :
    \A i \in 0..(Len(processingResults[p].tags) - 1) :
      /\ Cardinality(Changed(RemoveTag(processingResults, processingResults[p].id, i))) <= 1
      /\ Cardinality(Changed(SaveEditedTag(processingResults, processingResults[p].id,
                                           i, text))) <= 1

====
